---- MODULE Spec2Model ----
(***************************************************************************)
(* Model of windows-client/clipboard_capture.py: the DatabaseConnector,    *)
(* the ClipboardCapture reader, the ClipboardService (start, the two       *)
(* hotkey callbacks, the insert pipeline, stop, run_forever) and the       *)
(* ServiceGuardian loop.                                                   *)
(*                                                                         *)
(* Two flows of control exist in the program: the main thread, which runs  *)
(* ServiceGuardian.run and everything it calls, and the hotkey thread of   *)
(* the keyboard library, which runs the registered callbacks one at a      *)
(* time.  Each flow is a program counter with a stack of return labels;    *)
(* one action is one statement (or one run of statements that touch no     *)
(* shared state) of the source.                                            *)
(***************************************************************************)
EXTENDS Integers, Sequences, FiniteSets, TLC

(* ------------------------------ bounds -------------------------------- *)

\* service instances the guardian may create
MaxInstances == 2
\* counted (non-empty, running) captures of one service instance
MaxCaptures == 2
\* characters of clipboard text the environment may supply
MaxClipLen == 2
\* calls the sequential client of SpecConnector makes
MaxCalls == 3
\* identifiers the store hands out (RETURNING id of a serial column: 1, 2, ...)
MaxId == 2
\* service deaths the guardian of SpecGuardian counts before it stops reusing
\* instance numbers
MaxRestarts == 8

(* ------------------------- program constants -------------------------- *)

\* DatabaseConnector.__init__
retry_delay == 1
max_retry_delay == 30
max_retries == 5
\* _get_connection_params returns [lan_params, db_params]
NumEndpoints == 2
\* ServiceGuardian.__init__ and run; delays are floats that are multiples
\* of 1/DelayUnit second, kept as integers in that unit
DelayUnit == 64
restart_delay_base == 5 * DelayUnit
max_restart_delay == 60 * DelayUnit
\* Optional[int]: the value of "no identifier"
None == -1
\* what the sequential client of SpecConnector gets from a call that raised
Raised == None - 1

Threads == {"main", "hk"}
Instances == 1..MaxInstances
Endpoints == 1..NumEndpoints
StoreIds == 1..MaxId

VARIABLES
    \* ServiceGuardian
    should_run,        \* guardian.should_run
    restart_delay,     \* guardian.restart_delay, in 1/DelayUnit s
    created,           \* number of ClipboardService() made; guardian.service is #created
    \* ClipboardService, one per instance
    is_running,
    should_restart,
    stats,             \* captures, successful_inserts, failed_inserts, start_time, restart_count
    \* DatabaseConnector, one per instance
    connection,        \* self.connection: NoConn, or a handle that is Open or Closed
    orphans,           \* TRUE when a handle this connector opened and dropped is still open
    \* collaborators
    hotkeys,           \* registrations held by the keyboard facility
    \* control
    th,                \* per thread: pc, stack, inst, shutdown, idx, retry, ret
    \* history (not program state)
    gh,                \* per thread: what the running calls have done so far
    hist               \* run-wide history

vars == <<should_run, restart_delay, created, is_running, should_restart, stats,
          connection, orphans, hotkeys, th, gh, hist>>

guardianVars == <<should_run, restart_delay, created>>
serviceVars == <<is_running, should_restart, stats>>
dbVars == <<connection, orphans>>

\* self.connection is None, or a psycopg2 connection object that is open or has
\* been closed
NoConn == "None"
Open == "open"
Closed == "closed"

Min(a, b) == IF a <= b THEN a ELSE b

RECURSIVE Pow2(_)
Pow2(n) == IF n = 0 THEN 1 ELSE 2 * Pow2(n - 1)

\* Python truthiness of an Optional[int] (`if question_id:`)
Truthy(v) == v # None /\ v # 0

(* ------------------------- control helpers ---------------------------- *)

Self(t) == th[t].inst
At(t, l) == th[t].pc = l

\* A local is kept only while it is live: the value a call returned is read by
\* the statement the call returns to and by no later one.
Goto(t, l) == [th EXCEPT ![t].pc = l, ![t].ret = None]
Return(t, v) ==
    [th EXCEPT ![t].pc = Head(th[t].stack), ![t].stack = Tail(th[t].stack), ![t].ret = v]
\* return from connect (idx dies), reconnect_with_backoff (retry dies), stop (shutdown dies)
ReturnConnect(t, v) == [Return(t, v) EXCEPT ![t].idx = 0]
ReturnReconnect(t, v) == [Return(t, v) EXCEPT ![t].retry = 0]
ReturnStop(t) == [Return(t, None) EXCEPT ![t].shutdown = FALSE]

\* An exception no handler of the running functions catches (an AttributeError
\* on None): it ends the callback on the hotkey thread, and on the main thread
\* it reaches `except Exception` of ServiceGuardian.run.  The sequential client
\* of SpecConnector sees the call raise.
Uncaught(t) ==
    LET dead == [th[t] EXCEPT !.stack = <<>>, !.ret = None, !.idx = 0, !.retry = 0,
                              !.shutdown = FALSE]
    IN  IF t = "hk" THEN [th EXCEPT ![t] = [dead EXCEPT !.pc = "callback_return"]]
        ELSE IF th[t].stack # <<>> /\ th[t].stack[Len(th[t].stack)] = "api"
             THEN [th EXCEPT ![t] = [dead EXCEPT !.pc = "api", !.ret = Raised]]
             ELSE [th EXCEPT ![t] = [dead EXCEPT !.pc = "run_except"]]

\* The history of a connector call is kept for the sequential client of
\* SpecConnector, which looks at it when the call returns.
ApiOps == {"connect", "reconnect", "insert", "close"}
Tried(t, outcome) == [ep |-> th[t].idx, outcome |-> outcome]
Observed(t, g) == IF gh[t].op \in ApiOps THEN g ELSE gh

(* ------------------------- DatabaseConnector -------------------------- *)

\* self.connection = v: the handle the attribute held is dropped, not closed
Assign(i, v) ==
    /\ connection' = [connection EXCEPT ![i] = v]
    /\ orphans' = [orphans EXCEPT ![i] = @ \/ connection[i] = Open]

\* open handles of connector i: the one self.connection holds, and the dropped ones
\* (counted as one)
Live(i) == (IF orphans[i] THEN 1 ELSE 0) + (IF connection[i] = Open THEN 1 ELSE 0)

\* entering connect(): `for attempt, params in enumerate(self.connection_params, 1)`
EnterConnect(t, retlabel) ==
    [th EXCEPT ![t].pc = "connect_open", ![t].idx = 1, ![t].ret = None,
               ![t].stack = <<retlabel>> \o th[t].stack]

\* ConnectNext as it would be if connect gave up after the first failing endpoint
ConnectNext_first_only(t) == ReturnConnect(t, 0)

\* the end of one iteration of the for loop after a handled psycopg2.Error:
\* the next endpoint, or `return False` once the list is exhausted
ConnectNext(t) ==
    IF th[t].idx < NumEndpoints
    THEN [th EXCEPT ![t].pc = "connect_open", ![t].idx = th[t].idx + 1]
    ELSE ReturnConnect(t, 0)

\* line 181: self.connection = psycopg2.connect(**params)
connect_open(t) ==
    /\ At(t, "connect_open")
    /\ \E opened \in BOOLEAN :
        IF opened
        THEN /\ Assign(Self(t), Open)
             /\ th' = Goto(t, "connect_probe")
             /\ gh' = Observed(t, [gh EXCEPT ![t].opened = @ + 1, ![t].bound = th[t].idx])
        ELSE /\ th' = Goto(t, "connect_except")
             /\ gh' = Observed(t, [gh EXCEPT ![t].tried = Append(@, Tried(t, "refused"))])
             /\ UNCHANGED dbVars
    /\ UNCHANGED <<guardianVars, serviceVars, hotkeys, hist>>

\* lines 182-189: autocommit, the SELECT 1 probe, return True
connect_probe(t) ==
    /\ At(t, "connect_probe")
    /\ IF connection[Self(t)] = NoConn
       THEN /\ th' = Uncaught(t)
            /\ gh' = Observed(t, [gh EXCEPT ![t].tried = Append(@, Tried(t, "raised"))])
            /\ UNCHANGED hist
       ELSE IF connection[Self(t)] # Open
       THEN /\ th' = Goto(t, "connect_except")
            /\ gh' = Observed(t, [gh EXCEPT ![t].tried = Append(@, Tried(t, "probe_failed"))])
            /\ UNCHANGED hist
       ELSE \E alive \in BOOLEAN :
            IF alive
            THEN /\ th' = ReturnConnect(t, 1)
                 /\ gh' = Observed(t, [gh EXCEPT ![t].tried = Append(@, Tried(t, "ok")),
                                                 ![t].errored = FALSE])
                 /\ hist' = [hist EXCEPT !.dbPrev[Self(t)] = 0, !.dbLast[Self(t)] = 0]
            ELSE /\ th' = Goto(t, "connect_except")
                 /\ gh' = Observed(t, [gh EXCEPT ![t].tried = Append(@, Tried(t, "probe_failed"))])
                 /\ UNCHANGED hist
    /\ UNCHANGED <<guardianVars, serviceVars, dbVars, hotkeys>>

\* lines 191-193: except psycopg2.Error: ... if self.connection:
connect_except(t) ==
    /\ At(t, "connect_except")
    /\ th' = IF connection[Self(t)] # NoConn THEN Goto(t, "connect_except_close")
             ELSE ConnectNext(t)
    /\ UNCHANGED <<guardianVars, serviceVars, dbVars, hotkeys, gh, hist>>

\* line 194: self.connection.close()
connect_except_close(t) ==
    /\ At(t, "connect_except_close")
    /\ IF connection[Self(t)] = NoConn
       THEN /\ th' = Uncaught(t)
            /\ UNCHANGED <<dbVars, gh>>
       ELSE /\ connection' = [connection EXCEPT ![Self(t)] = Closed]
            /\ gh' = Observed(t, [gh EXCEPT ![t].closed =
                                        @ + (IF connection[Self(t)] = Open THEN 1 ELSE 0)])
            /\ th' = Goto(t, "connect_except_none")
            /\ UNCHANGED orphans
    /\ UNCHANGED <<guardianVars, serviceVars, hotkeys, hist>>

\* line 195: self.connection = None
connect_except_none(t) ==
    /\ At(t, "connect_except_none")
    /\ Assign(Self(t), NoConn)
    /\ th' = ConnectNext(t)
    /\ UNCHANGED <<guardianVars, serviceVars, hotkeys, gh, hist>>

\* BackoffDelay as it would be with a linear instead of an exponential growth
BackoffDelay_linear(retry) == Min(retry_delay * (retry + 1), max_retry_delay)

\* line 203: delay = min(self.retry_delay * (2 ** retry), self.max_retry_delay)
BackoffDelay(retry) == Min(retry_delay * Pow2(retry), max_retry_delay)

EnterReconnect(t, retlabel) ==
    [th EXCEPT ![t].pc = "reconnect_loop", ![t].retry = 0, ![t].ret = None,
               ![t].stack = <<retlabel>> \o th[t].stack]

\* lines 202-207: for retry in range(self.max_retries): delay; sleep; self.connect()
\* lines 210-211: return False when the range is exhausted
reconnect_loop(t) ==
    /\ At(t, "reconnect_loop")
    /\ IF th[t].retry < max_retries
       THEN /\ th' = EnterConnect(t, "reconnect_after_connect")
            /\ gh' = Observed(t, [gh EXCEPT
                        ![t].slept = Append(@, BackoffDelay(th[t].retry)),
                        ![t].attempts = @ + 1,
                        ![t].tried = <<>>, ![t].opened = 0, ![t].closed = 0])
            /\ hist' = [hist EXCEPT
                        !.dbPrev[Self(t)] = hist.dbLast[Self(t)],
                        !.dbLast[Self(t)] = BackoffDelay(th[t].retry)]
       ELSE /\ th' = ReturnReconnect(t, 0)
            /\ UNCHANGED <<gh, hist>>
    /\ UNCHANGED <<guardianVars, serviceVars, dbVars, hotkeys>>

\* lines 207-208: if self.connect(): return True
reconnect_after_connect(t) ==
    /\ At(t, "reconnect_after_connect")
    /\ th' = IF th[t].ret = 1 THEN ReturnReconnect(t, 1)
             ELSE [th EXCEPT ![t].pc = "reconnect_loop", ![t].retry = th[t].retry + 1,
                             ![t].ret = None]
    /\ gh' = Observed(t, [gh EXCEPT ![t].results = Append(@, th[t].ret)])
    /\ UNCHANGED <<guardianVars, serviceVars, dbVars, hotkeys, hist>>

EnterInsert(t, retlabel) ==
    [th EXCEPT ![t].pc = "insert_check", ![t].ret = None,
               ![t].stack = <<retlabel>> \o th[t].stack]

\* insert_check as it would be without the guard on self.connection
insert_check_skipped(t) ==
    /\ At(t, "insert_check")
    /\ th' = Goto(t, "insert_exec")
    /\ UNCHANGED <<guardianVars, serviceVars, dbVars, hotkeys, gh, hist>>

\* lines 215-217: if not self.connection: return None
insert_check(t) ==
    /\ At(t, "insert_check")
    /\ th' = IF connection[Self(t)] = NoConn THEN Return(t, None)
             ELSE Goto(t, "insert_exec")
    /\ UNCHANGED <<guardianVars, serviceVars, dbVars, hotkeys, gh, hist>>

\* insert_exec as it would be if the handler kept self.connection after an error
insert_exec_keeps_connection(t) ==
    /\ At(t, "insert_exec")
    /\ connection[Self(t)] # NoConn
    /\ \E result \in StoreIds \cup {None} :
        /\ gh' = Observed(t, [gh EXCEPT ![t].sent = @ + 1,
                                        ![t].errored = @ \/ result = None])
        /\ th' = Return(t, result)
    /\ UNCHANGED <<guardianVars, serviceVars, dbVars, hotkeys, hist>>

\* lines 219-234: the INSERT ... RETURNING id, and the psycopg2.Error handler
insert_exec(t) ==
    /\ At(t, "insert_exec")
    /\ IF connection[Self(t)] = NoConn
       THEN /\ th' = Uncaught(t)
            /\ UNCHANGED <<dbVars, gh>>
       ELSE IF connection[Self(t)] # Open
       THEN /\ Assign(Self(t), NoConn)
            /\ th' = Return(t, None)
            /\ UNCHANGED gh
       ELSE \E result \in StoreIds \cup {None} :
            /\ gh' = Observed(t, [gh EXCEPT ![t].sent = @ + 1,
                                            ![t].errored = @ \/ result = None])
            /\ th' = Return(t, result)
            /\ IF result # None THEN UNCHANGED dbVars ELSE Assign(Self(t), NoConn)
    /\ UNCHANGED <<guardianVars, serviceVars, hotkeys, hist>>

EnterClose(t, retlabel) ==
    [th EXCEPT ![t].pc = "close_check", ![t].ret = None,
               ![t].stack = <<retlabel>> \o th[t].stack]

\* line 238: if self.connection:
close_check(t) ==
    /\ At(t, "close_check")
    /\ th' = IF connection[Self(t)] # NoConn THEN Goto(t, "close_close")
             ELSE Return(t, None)
    /\ UNCHANGED <<guardianVars, serviceVars, dbVars, hotkeys, gh, hist>>

\* line 239: self.connection.close()
close_close(t) ==
    /\ At(t, "close_close")
    /\ IF connection[Self(t)] = NoConn
       THEN /\ th' = Uncaught(t)
            /\ UNCHANGED <<dbVars, gh>>
       ELSE /\ connection' = [connection EXCEPT ![Self(t)] = Closed]
            /\ gh' = Observed(t, [gh EXCEPT ![t].released =
                                        @ + (IF connection[Self(t)] = Open THEN 1 ELSE 0)])
            /\ th' = Goto(t, "close_none")
            /\ UNCHANGED orphans
    /\ UNCHANGED <<guardianVars, serviceVars, hotkeys, hist>>

\* close_none as it would be if close() left the closed handle in self.connection
close_none_keeps(t) ==
    /\ At(t, "close_none")
    /\ th' = Return(t, None)
    /\ UNCHANGED <<guardianVars, serviceVars, dbVars, hotkeys, gh, hist>>

\* line 240: self.connection = None
close_none(t) ==
    /\ At(t, "close_none")
    /\ Assign(Self(t), NoConn)
    /\ th' = Return(t, None)
    /\ UNCHANGED <<guardianVars, serviceVars, hotkeys, gh, hist>>

\* lines 195 and 233 drop the last reference to a handle without close():
\* the interpreter closes such a handle when it finalizes the object, at a
\* moment the program does not choose
finalize(i) ==
    /\ orphans[i]
    /\ orphans' = [orphans EXCEPT ![i] = FALSE]
    /\ UNCHANGED <<guardianVars, serviceVars, connection, hotkeys, th, gh, hist>>

ConnectorStep(t) ==
    \/ connect_open(t)
    \/ connect_probe(t)
    \/ connect_except(t)
    \/ connect_except_close(t)
    \/ connect_except_none(t)
    \/ reconnect_loop(t)
    \/ reconnect_after_connect(t)
    \/ insert_check(t)
    \/ insert_exec(t)
    \/ close_check(t)
    \/ close_close(t)
    \/ close_none(t)

(* -------------------------- initial state ----------------------------- *)

FreshStats ==
    [captures |-> 0, successful_inserts |-> 0, failed_inserts |-> 0,
     start_time |-> FALSE, restart_count |-> 0]

FreshThread(l) ==
    [pc |-> l, stack |-> <<>>, inst |-> 0, shutdown |-> FALSE,
     idx |-> 0, retry |-> 0, ret |-> None]

FreshGhost ==
    [op |-> "none", prevop |-> "none", pre |-> NoConn, calls |-> 0,
     tried |-> <<>>, opened |-> 0, closed |-> 0, bound |-> 0,
     slept |-> <<>>, attempts |-> 0, results |-> <<>>,
     errored |-> FALSE, preErr |-> FALSE, readBlank |-> FALSE,
     sent |-> 0, inserts |-> 0, reconnects |-> 0, released |-> 0,
     first |-> "none", reconn |-> "none", second |-> "none",
     c0 |-> 0, s0 |-> 0, f0 |-> 0, live |-> FALSE, registered |-> <<>>]

FreshHist ==
    [dbLast |-> [i \in Instances |-> 0], dbPrev |-> [i \in Instances |-> 0],
     rsLast |-> 0, rsPrev |-> 0, abnormal |-> 0, streak |-> 0,
     stop_pressed |-> FALSE, signalled |-> FALSE]

InitWith(mainpc) ==
    /\ should_run = TRUE
    /\ restart_delay = restart_delay_base
    /\ created = 0
    /\ is_running = [i \in Instances |-> FALSE]
    /\ should_restart = [i \in Instances |-> TRUE]
    /\ stats = [i \in Instances |-> FreshStats]
    /\ connection = [i \in Instances |-> NoConn]
    /\ orphans = [i \in Instances |-> FALSE]
    /\ hotkeys = {}
    /\ th = [t \in Threads |-> FreshThread(IF t = "main" THEN mainpc ELSE "idle")]
    /\ gh = [t \in Threads |-> FreshGhost]
    /\ hist = FreshHist

(* ------------- the connector under a sequential client ---------------- *)

\* One client calls connect, reconnect_with_backoff, insert_question and
\* close of one DatabaseConnector, one call at a time, in the orders the
\* program uses: connect and reconnect_with_backoff are entered with no
\* connection held (a fresh connector, or after a failed connect or insert).
ApiCall(t, op) ==
    /\ At(t, "api")
    /\ gh[t].calls < MaxCalls
    /\ op \in {"connect", "reconnect"} => connection[1] = NoConn
    /\ LET g0 == [gh EXCEPT ![t].op = op, ![t].prevop = gh[t].op,
                            ![t].pre = connection[1],
                            ![t].calls = @ + 1, ![t].released = 0,
                            ![t].tried = <<>>, ![t].opened = 0, ![t].closed = 0,
                            ![t].slept = <<>>, ![t].attempts = 0, ![t].results = <<>>,
                            ![t].preErr = gh[t].errored,
                            ![t].sent = 0]
           t0 == [th EXCEPT ![t].inst = 1]
       IN  CASE op = "connect" ->
                  /\ th' = [t0 EXCEPT ![t].pc = "connect_open", ![t].idx = 1,
                                      ![t].stack = <<"api">>]
                  /\ gh' = g0
             [] op = "reconnect" ->
                  /\ th' = [t0 EXCEPT ![t].pc = "reconnect_loop", ![t].retry = 0,
                                      ![t].stack = <<"api">>]
                  /\ gh' = g0
             [] op = "insert" ->
                  /\ th' = [t0 EXCEPT ![t].pc = "insert_check", ![t].stack = <<"api">>]
                  /\ gh' = g0
             [] op = "close" ->
                  /\ th' = [t0 EXCEPT ![t].pc = "close_check", ![t].stack = <<"api">>]
                  /\ gh' = g0
    /\ UNCHANGED <<guardianVars, serviceVars, dbVars, hotkeys, hist>>

InitConnector == InitWith("api")

NextConnector ==
    \/ \E op \in {"connect", "reconnect", "insert", "close"} : ApiCall("main", op)
    \/ ConnectorStep("main")
    \/ finalize(1)

SpecConnector == InitConnector /\ [][NextConnector]_vars

(* --------------------------- ClipboardCapture ------------------------- *)

Chars == {" ", "x"}
IsSpace(c) == c = " "

\* what pyperclip.paste() may give: a text, or an exception
ClipboardTexts == UNION {[1..n -> Chars] : n \in 0..MaxClipLen}
ClipboardReads ==
    {[readable |-> TRUE, text |-> s] : s \in ClipboardTexts}
        \cup {[readable |-> FALSE, text |-> <<>>]}

\* a read that carries no text: unreadable, empty, or nothing but whitespace
Blank(read) == ~read.readable \/ \A k \in 1..Len(read.text) : read.text[k] = " "

RECURSIVE lstrip(_)
lstrip(s) == IF s # <<>> /\ IsSpace(Head(s)) THEN lstrip(Tail(s)) ELSE s
RECURSIVE rstrip(_)
rstrip(s) ==
    IF s # <<>> /\ IsSpace(s[Len(s)]) THEN rstrip(SubSeq(s, 1, Len(s) - 1)) ELSE s
\* str.strip()
strip(s) == rstrip(lstrip(s))

\* get_clipboard_text as it would be without the strip() of line 252
get_clipboard_text_unstripped(read) == IF ~read.readable THEN <<>> ELSE read.text

\* lines 248-259: the stripped text, "" when empty, blank or unreadable
get_clipboard_text(read) ==
    IF ~read.readable THEN <<>>
    ELSE IF read.text # <<>> /\ strip(read.text) # <<>> THEN strip(read.text)
    ELSE <<>>

(* ------------------------- keyboard facility -------------------------- *)

Registration(key, i) == [key |-> key, inst |-> i]

\* keyboard.add_hotkey(combo, callback): the registration is added, or the call raises
add_hotkey(key, i, ok) == hotkeys' = IF ok THEN hotkeys \cup {Registration(key, i)} ELSE hotkeys

\* keyboard.unhook_all_hotkeys(): every registration is removed, or the call raises
unhook_all_hotkeys(ok) == hotkeys' = IF ok THEN {} ELSE hotkeys

(* --------------------------- ClipboardService ------------------------- *)

\* the callback returns to the keyboard library
Done(t) == [th EXCEPT ![t] = [FreshThread("callback_return") EXCEPT !.inst = th[t].inst]]

\* A ClipboardService the guardian has replaced (line 430) and on which no
\* callback is running is unreachable: nothing reads or writes its counters, its
\* connector or its should_restart again (a callback of it that is still
\* registered reads is_running, which is kept).  Its state is forgotten.
Forgotten(i, current) == i < current /\ th["hk"].inst # i
Forget(gone) ==
    /\ should_restart' = [i \in Instances |-> IF i \in gone THEN TRUE ELSE should_restart[i]]
    /\ stats' = [i \in Instances |-> IF i \in gone THEN FreshStats ELSE stats[i]]
    /\ connection' = [i \in Instances |-> IF i \in gone THEN NoConn ELSE connection[i]]
    /\ orphans' = [i \in Instances |-> IF i \in gone THEN FALSE ELSE orphans[i]]
    /\ hist' = [hist EXCEPT
                  !.dbLast = [i \in Instances |-> IF i \in gone THEN 0 ELSE hist.dbLast[i]],
                  !.dbPrev = [i \in Instances |-> IF i \in gone THEN 0 ELSE hist.dbPrev[i]]]

callback_return(t) ==
    /\ At(t, "callback_return")
    /\ th' = [th EXCEPT ![t] = FreshThread("idle")]
    /\ gh' = [gh EXCEPT ![t] = FreshGhost]
    /\ Forget(IF Self(t) < created THEN {Self(t)} ELSE {})
    /\ UNCHANGED <<guardianVars, is_running, hotkeys>>

\* lines 283-287: if not self.db.connect(): if not self.db.reconnect_with_backoff(): ...
start_after_connect(t) ==
    /\ At(t, "start_after_connect")
    /\ IF th[t].ret = 1
       THEN /\ th' = Goto(t, "start_register_capture")
            /\ gh' = [gh EXCEPT ![t].first = "ok"]
       ELSE /\ th' = EnterReconnect(t, "start_after_reconnect")
            /\ gh' = [gh EXCEPT ![t].first = "failed"]
    /\ UNCHANGED <<guardianVars, serviceVars, dbVars, hotkeys, hist>>

\* lines 285-287: return False when the reconnect failed too
start_after_reconnect(t) ==
    /\ At(t, "start_after_reconnect")
    /\ th' = IF th[t].ret = 1 THEN Goto(t, "start_register_capture") ELSE Return(t, 0)
    /\ gh' = [gh EXCEPT ![t].reconn = IF th[t].ret = 1 THEN "ok" ELSE "failed"]
    /\ UNCHANGED <<guardianVars, serviceVars, dbVars, hotkeys, hist>>

\* line 291 (and 294-296): keyboard.add_hotkey('ctrl+alt+c', self._on_hotkey_pressed)
start_register_capture(t) ==
    /\ At(t, "start_register_capture")
    /\ \E ok \in BOOLEAN :
        /\ add_hotkey("capture", Self(t), ok)
        /\ th' = IF ok THEN Goto(t, "start_register_stop") ELSE Return(t, 0)
        /\ gh' = [gh EXCEPT ![t].registered = IF ok THEN Append(@, "capture") ELSE @]
    /\ UNCHANGED <<guardianVars, serviceVars, dbVars, hist>>

\* start_register_stop as it would be if a failed registration were ignored
start_register_stop_ignores_failure(t) ==
    /\ At(t, "start_register_stop")
    /\ \E ok \in BOOLEAN :
        /\ add_hotkey("stop", Self(t), ok)
        /\ th' = Goto(t, "start_running")
        /\ gh' = [gh EXCEPT ![t].registered = IF ok THEN Append(@, "stop") ELSE @]
    /\ UNCHANGED <<guardianVars, serviceVars, dbVars, hist>>

\* line 292 (and 294-296): keyboard.add_hotkey('ctrl+shift+q', self._on_stop_hotkey_pressed)
start_register_stop(t) ==
    /\ At(t, "start_register_stop")
    /\ \E ok \in BOOLEAN :
        /\ add_hotkey("stop", Self(t), ok)
        /\ th' = IF ok THEN Goto(t, "start_running") ELSE Return(t, 0)
        /\ gh' = [gh EXCEPT ![t].registered = IF ok THEN Append(@, "stop") ELSE @]
    /\ UNCHANGED <<guardianVars, serviceVars, dbVars, hist>>

\* lines 298-306: self.is_running = True; start_time; return True
start_running(t) ==
    /\ At(t, "start_running")
    /\ is_running' = [is_running EXCEPT ![Self(t)] = TRUE]
    /\ stats' = [stats EXCEPT ![Self(t)].start_time = TRUE]
    /\ th' = Return(t, 1)
    /\ UNCHANGED <<guardianVars, should_restart, dbVars, hotkeys, gh, hist>>

\* the keyboard library takes the next hotkey event and calls a callback
\* registered for it
hotkey_event(t) ==
    /\ At(t, "idle")
    /\ \E r \in hotkeys :
        /\ r.key = "capture" => stats[r.inst].captures < MaxCaptures
        /\ th' = [th EXCEPT ![t].inst = r.inst,
                            ![t].pc = IF r.key = "capture" THEN "on_hotkey_pressed"
                                      ELSE "on_stop_hotkey_pressed"]
        /\ gh' = [gh EXCEPT ![t] = [FreshGhost EXCEPT
                                        !.op = r.key,
                                        !.live = r.key = "stop" /\ is_running[r.inst]]]
        /\ hist' = [hist EXCEPT !.stop_pressed = @ \/ r.key = "stop"]
    /\ UNCHANGED <<guardianVars, serviceVars, dbVars, hotkeys>>

\* on_hotkey_pressed as it would be without the guard on is_running
on_hotkey_pressed_unguarded(t) ==
    /\ At(t, "on_hotkey_pressed")
    /\ th' = Goto(t, "on_hotkey_read")
    /\ gh' = [gh EXCEPT ![t].op = "reading"]
    /\ UNCHANGED <<guardianVars, serviceVars, dbVars, hotkeys, hist>>

\* lines 310-311: if not self.is_running: return
on_hotkey_pressed(t) ==
    /\ At(t, "on_hotkey_pressed")
    /\ th' = IF is_running[Self(t)] THEN Goto(t, "on_hotkey_read") ELSE Done(t)
    /\ gh' = [gh EXCEPT ![t].op = IF is_running[Self(t)] THEN "reading" ELSE "discarded"]
    /\ UNCHANGED <<guardianVars, serviceVars, dbVars, hotkeys, hist>>

\* lines 316-325 and 338: read the clipboard; return when empty; count the
\* capture and call self.db.insert_question
on_hotkey_read(t) ==
    /\ At(t, "on_hotkey_read")
    /\ \E read \in ClipboardReads :
        IF get_clipboard_text(read) = <<>>
        THEN /\ th' = Done(t)
             /\ gh' = [gh EXCEPT ![t].op = "empty", ![t].readBlank = Blank(read)]
             /\ UNCHANGED stats
        ELSE /\ stats' = [stats EXCEPT ![Self(t)].captures = @ + 1]
             /\ th' = EnterInsert(t, "retry_after_insert")
             /\ gh' = [gh EXCEPT
                        ![t].op = "pipeline", ![t].inserts = 1,
                        ![t].readBlank = Blank(read),
                        ![t].c0 = stats[Self(t)].captures,
                        ![t].s0 = stats[Self(t)].successful_inserts,
                        ![t].f0 = stats[Self(t)].failed_inserts]
    /\ UNCHANGED <<guardianVars, is_running, should_restart, dbVars, hotkeys, hist>>

Outcome(v) == IF Truthy(v) THEN "ok" ELSE "failed"

\* lines 340-346: count the success, or call self.db.reconnect_with_backoff()
retry_after_insert(t) ==
    /\ At(t, "retry_after_insert")
    /\ IF Truthy(th[t].ret)
       THEN /\ stats' = [stats EXCEPT ![Self(t)].successful_inserts = @ + 1]
            /\ th' = Done(t)
            /\ gh' = [gh EXCEPT ![t].first = "ok", ![t].op = "handled"]
       ELSE /\ th' = EnterReconnect(t, "retry_after_reconnect")
            /\ gh' = [gh EXCEPT ![t].first = "failed", ![t].reconnects = @ + 1]
            /\ UNCHANGED stats
    /\ UNCHANGED <<guardianVars, is_running, should_restart, dbVars, hotkeys, hist>>

\* lines 346-347 and 354-356: retry the insert, or count the failure
retry_after_reconnect(t) ==
    /\ At(t, "retry_after_reconnect")
    /\ IF th[t].ret = 1
       THEN /\ th' = EnterInsert(t, "retry_after_second_insert")
            /\ gh' = [gh EXCEPT ![t].reconn = "ok", ![t].inserts = @ + 1]
            /\ UNCHANGED stats
       ELSE /\ stats' = [stats EXCEPT ![Self(t)].failed_inserts = @ + 1]
            /\ th' = Done(t)
            /\ gh' = [gh EXCEPT ![t].reconn = "failed", ![t].op = "handled"]
    /\ UNCHANGED <<guardianVars, is_running, should_restart, dbVars, hotkeys, hist>>

\* retry_after_second_insert as it would be if a failed retry reconnected again
retry_after_second_insert_again(t) ==
    /\ At(t, "retry_after_second_insert")
    /\ IF Truthy(th[t].ret)
       THEN /\ stats' = [stats EXCEPT ![Self(t)].successful_inserts = @ + 1]
            /\ th' = Done(t)
            /\ gh' = [gh EXCEPT ![t].second = "ok", ![t].op = "handled"]
       ELSE /\ th' = EnterReconnect(t, "retry_after_reconnect")
            /\ gh' = [gh EXCEPT ![t].second = "failed", ![t].reconnects = @ + 1]
            /\ UNCHANGED stats
    /\ UNCHANGED <<guardianVars, is_running, should_restart, dbVars, hotkeys, hist>>

\* lines 348-353: count the retried insert
retry_after_second_insert(t) ==
    /\ At(t, "retry_after_second_insert")
    /\ stats' = IF Truthy(th[t].ret)
                THEN [stats EXCEPT ![Self(t)].successful_inserts = @ + 1]
                ELSE [stats EXCEPT ![Self(t)].failed_inserts = @ + 1]
    /\ th' = Done(t)
    /\ gh' = [gh EXCEPT ![t].second = Outcome(th[t].ret), ![t].op = "handled"]
    /\ UNCHANGED <<guardianVars, is_running, should_restart, dbVars, hotkeys, hist>>

EnterStop(t, shutdown, retlabel) ==
    [th EXCEPT ![t].pc = "stop_flag", ![t].shutdown = shutdown, ![t].ret = None,
               ![t].stack = <<retlabel>> \o th[t].stack]

\* lines 329-331: self.stop(shutdown=True)
on_stop_hotkey_pressed(t) ==
    /\ At(t, "on_stop_hotkey_pressed")
    /\ th' = EnterStop(t, TRUE, "on_stop_signal_guardian")
    /\ UNCHANGED <<guardianVars, serviceVars, dbVars, hotkeys, gh, hist>>

\* lines 333-334: self._guardian_ref.should_run = False
on_stop_signal_guardian(t) ==
    /\ At(t, "on_stop_signal_guardian")
    /\ should_run' = FALSE
    /\ th' = Done(t)
    /\ UNCHANGED <<restart_delay, created, serviceVars, dbVars, hotkeys, gh, hist>>

\* stop_flag as it would be if stop() left the service marked running
stop_flag_keeps_running(t) ==
    /\ At(t, "stop_flag")
    /\ th' = Goto(t, "stop_restart")
    /\ UNCHANGED <<guardianVars, serviceVars, dbVars, hotkeys, gh, hist>>

\* line 362: self.is_running = False
stop_flag(t) ==
    /\ At(t, "stop_flag")
    /\ is_running' = [is_running EXCEPT ![Self(t)] = FALSE]
    /\ th' = Goto(t, "stop_restart")
    /\ UNCHANGED <<guardianVars, should_restart, stats, dbVars, hotkeys, gh, hist>>

\* lines 363-364: if shutdown: self.should_restart = False
stop_restart(t) ==
    /\ At(t, "stop_restart")
    /\ should_restart' = IF th[t].shutdown THEN [should_restart EXCEPT ![Self(t)] = FALSE]
                         ELSE should_restart
    /\ th' = Goto(t, "stop_unhook")
    /\ UNCHANGED <<guardianVars, is_running, stats, dbVars, hotkeys, gh, hist>>

\* lines 367-374: keyboard.unhook_all_hotkeys(), whose failure is logged only;
\* self.db.close()
stop_unhook(t) ==
    /\ At(t, "stop_unhook")
    /\ \E ok \in BOOLEAN : unhook_all_hotkeys(ok)
    /\ th' = EnterClose(t, "stop_stats")
    /\ UNCHANGED <<guardianVars, serviceVars, dbVars, gh, hist>>

\* lines 377-387: the final statistics are logged, on shutdown only
stop_stats(t) ==
    /\ At(t, "stop_stats")
    /\ th' = ReturnStop(t)
    /\ UNCHANGED <<guardianVars, serviceVars, dbVars, hotkeys, gh, hist>>

\* line 392: while self.is_running:
run_forever_while(t) ==
    /\ At(t, "run_forever_while")
    /\ th' = IF is_running[Self(t)] THEN Goto(t, "run_forever_check") ELSE Return(t, None)
    /\ UNCHANGED <<guardianVars, serviceVars, dbVars, hotkeys, gh, hist>>

\* lines 393-396: time.sleep(1); if self.is_running and not keyboard._hotkeys:
\* During the sleep the keyboard facility may have lost its registrations
\* (the case the health check looks for).
run_forever_check(t) ==
    /\ At(t, "run_forever_check")
    /\ \E lost \in BOOLEAN :
        /\ lost => hotkeys # {}
        /\ hotkeys' = IF lost THEN {} ELSE hotkeys
        /\ th' = IF is_running[Self(t)] /\ hotkeys' = {}
                 THEN Goto(t, "run_forever_register_capture")
                 ELSE Goto(t, "run_forever_while")
    /\ UNCHANGED <<guardianVars, serviceVars, dbVars, gh, hist>>

\* line 398 (and 401-403): re-register the capture hotkey, or raise
run_forever_register_capture(t) ==
    /\ At(t, "run_forever_register_capture")
    /\ \E ok \in BOOLEAN :
        /\ add_hotkey("capture", Self(t), ok)
        /\ th' = IF ok THEN Goto(t, "run_forever_register_stop")
                 ELSE Goto(t, "run_forever_except")
    /\ UNCHANGED <<guardianVars, serviceVars, dbVars, gh, hist>>

\* line 399 (and 401-403): re-register the stop hotkey, or raise
run_forever_register_stop(t) ==
    /\ At(t, "run_forever_register_stop")
    /\ \E ok \in BOOLEAN :
        /\ add_hotkey("stop", Self(t), ok)
        /\ th' = IF ok THEN Goto(t, "run_forever_while")
                 ELSE Goto(t, "run_forever_except")
    /\ UNCHANGED <<guardianVars, serviceVars, dbVars, gh, hist>>

\* run_forever_except as it would be if the handler stopped the service for good
run_forever_except_graceful(t) ==
    /\ At(t, "run_forever_except")
    /\ th' = EnterStop(t, TRUE, "run_forever_raise")
    /\ UNCHANGED <<guardianVars, serviceVars, dbVars, hotkeys, gh, hist>>

\* lines 407-409: except Exception: self.stop()
run_forever_except(t) ==
    /\ At(t, "run_forever_except")
    /\ th' = EnterStop(t, FALSE, "run_forever_raise")
    /\ UNCHANGED <<guardianVars, serviceVars, dbVars, hotkeys, gh, hist>>

\* line 410: raise
run_forever_raise(t) ==
    /\ At(t, "run_forever_raise")
    /\ th' = [th EXCEPT ![t].pc = "run_except", ![t].stack = <<>>, ![t].ret = None]
    /\ UNCHANGED <<guardianVars, serviceVars, dbVars, hotkeys, gh, hist>>

(* --------------------------- ServiceGuardian -------------------------- *)

\* NextRestartDelay as it would be if the delay were divided by 1.5
NextRestartDelay_shrinks(d) == Min((2 * d) \div 3, max_restart_delay)

\* NextRestartDelay as it would be without the cap
NextRestartDelay_uncapped(d) == (3 * d) \div 2

\* line 456: min(self.restart_delay * 1.5, self.max_restart_delay)
NextRestartDelay(d) == IF 3 * d >= 2 * max_restart_delay THEN max_restart_delay ELSE (3 * d) \div 2

\* lines 428-435: while self.should_run: self.service = ClipboardService();
\* self.service.start(), whose first statement is self.db.connect()
run_loop(t) ==
    /\ At(t, "run_loop")
    /\ IF should_run
       THEN /\ created < MaxInstances
            /\ created' = created + 1
            /\ th' = [th EXCEPT ![t].inst = created + 1, ![t].pc = "connect_open",
                                ![t].idx = 1,
                                ![t].stack = <<"start_after_connect", "run_after_start">>]
            /\ Forget({i \in Instances : Forgotten(i, created + 1)})
       ELSE /\ th' = Goto(t, "run_done")
            /\ UNCHANGED <<created, should_restart, stats, dbVars, hist>>
    /\ gh' = [gh EXCEPT ![t] = FreshGhost]
    /\ UNCHANGED <<should_run, restart_delay, is_running, hotkeys>>

\* run_after_start as it would be if run_forever were called whatever start() returned
run_after_start_runs_anyway(t) ==
    /\ At(t, "run_after_start")
    /\ restart_delay' = restart_delay_base
    /\ th' = [th EXCEPT ![t].pc = "run_forever_while", ![t].ret = None,
                        ![t].stack = <<"run_after_run_forever">>]
    /\ hist' = [hist EXCEPT !.rsLast = 0, !.rsPrev = 0, !.streak = 0]
    /\ UNCHANGED <<should_run, created, serviceVars, dbVars, hotkeys, gh>>

\* lines 435-440 and 446-447: reset the delay and run the service, or fall
\* through to the restart step
run_after_start(t) ==
    /\ At(t, "run_after_start")
    /\ IF th[t].ret = 1
       THEN /\ restart_delay' = restart_delay_base
            /\ th' = [th EXCEPT ![t].pc = "run_forever_while", ![t].ret = None,
                                ![t].stack = <<"run_after_run_forever">>]
            /\ hist' = [hist EXCEPT !.rsLast = 0, !.rsPrev = 0, !.streak = 0]
       ELSE /\ th' = Goto(t, "run_died")
            /\ UNCHANGED <<restart_delay, hist>>
    /\ gh' = [gh EXCEPT ![t] = FreshGhost]
    /\ UNCHANGED <<should_run, created, serviceVars, dbVars, hotkeys>>

\* lines 443-444: if not self.should_run: break
run_after_run_forever(t) ==
    /\ At(t, "run_after_run_forever")
    /\ th' = IF ~should_run THEN Goto(t, "run_done") ELSE Goto(t, "run_died")
    /\ UNCHANGED <<guardianVars, serviceVars, dbVars, hotkeys, gh, hist>>

\* run_died as it would be if the guardian gave up after a service that died
run_died_gives_up(t) ==
    /\ At(t, "run_died")
    /\ th' = Goto(t, "run_done")
    /\ UNCHANGED <<guardianVars, serviceVars, dbVars, hotkeys, gh, hist>>

\* lines 450-452 and 458-460: count the restart, or break
run_died(t) ==
    /\ At(t, "run_died")
    /\ IF should_run /\ should_restart[created]
       THEN /\ stats' = [stats EXCEPT ![created].restart_count = @ + 1]
            /\ hist' = [hist EXCEPT !.abnormal = @ + 1]
            /\ th' = Goto(t, "run_sleep")
       ELSE /\ th' = IF ~should_restart[created] THEN Goto(t, "run_done")
                     ELSE Goto(t, "run_loop")
            /\ UNCHANGED <<stats, hist>>
    /\ UNCHANGED <<guardianVars, is_running, should_restart, dbVars, hotkeys, gh>>

\* lines 453-456: time.sleep(self.restart_delay); grow the delay
run_sleep(t) ==
    /\ At(t, "run_sleep")
    /\ restart_delay' = NextRestartDelay(restart_delay)
    /\ hist' = [hist EXCEPT !.rsPrev = hist.rsLast, !.rsLast = restart_delay,
                            !.streak = @ + 1]
    /\ th' = Goto(t, "run_loop")
    /\ UNCHANGED <<should_run, created, serviceVars, dbVars, hotkeys, gh>>

\* lines 469-480: except Exception: count, sleep and grow the delay, or break
run_except(t) ==
    /\ At(t, "run_except")
    /\ IF should_run
       THEN /\ stats' = [stats EXCEPT ![created].restart_count = @ + 1]
            /\ restart_delay' = NextRestartDelay(restart_delay)
            /\ hist' = [hist EXCEPT !.rsPrev = hist.rsLast, !.rsLast = restart_delay,
                                    !.abnormal = @ + 1, !.streak = @ + 1]
            /\ th' = Goto(t, "run_loop")
       ELSE /\ th' = Goto(t, "run_done")
            /\ UNCHANGED <<stats, restart_delay, hist>>
    /\ UNCHANGED <<should_run, created, is_running, should_restart, dbVars, hotkeys, gh>>

(* ----------------------------- environment ---------------------------- *)

\* lines 485-488 and 494-495: SIGINT or SIGTERM runs signal_handler, whose
\* sys.exit(0) raises SystemExit in the main thread; neither `except Exception`
\* nor `except KeyboardInterrupt` catches it and the process ends
signal_handler ==
    /\ th["main"].pc \notin {"run_done", "exited"}
    /\ th' = [t \in Threads |-> FreshThread("exited")]
    /\ gh' = [t \in Threads |-> FreshGhost]
    /\ hist' = [hist EXCEPT !.signalled = TRUE]
    /\ UNCHANGED <<guardianVars, serviceVars, dbVars, hotkeys>>

(* ---------------------------- the program ----------------------------- *)

ServiceStep(t) ==
    \/ start_after_connect(t)
    \/ start_after_reconnect(t)
    \/ start_register_capture(t)
    \/ start_register_stop(t)
    \/ start_running(t)
    \/ stop_flag(t)
    \/ stop_restart(t)
    \/ stop_unhook(t)
    \/ stop_stats(t)

MainStep ==
    \/ run_loop("main")
    \/ run_after_start("main")
    \/ run_forever_while("main")
    \/ run_forever_check("main")
    \/ run_forever_register_capture("main")
    \/ run_forever_register_stop("main")
    \/ run_forever_except("main")
    \/ run_forever_raise("main")
    \/ run_after_run_forever("main")
    \/ run_died("main")
    \/ run_sleep("main")
    \/ run_except("main")

HotkeyStep ==
    \/ hotkey_event("hk")
    \/ on_hotkey_pressed("hk")
    \/ on_hotkey_read("hk")
    \/ retry_after_insert("hk")
    \/ retry_after_reconnect("hk")
    \/ retry_after_second_insert("hk")
    \/ on_stop_hotkey_pressed("hk")
    \/ on_stop_signal_guardian("hk")
    \/ callback_return("hk")

Init == InitWith("run_loop")

Next ==
    \/ MainStep
    \/ HotkeyStep
    \/ \E t \in Threads : ServiceStep(t) \/ ConnectorStep(t)
    \/ \E i \in Instances : finalize(i)
    \/ signal_handler

Spec == Init /\ [][Next]_vars

(* --------------- the program when no key is ever pressed --------------- *)

\* The guardian replaces its service instance on every iteration (line 430),
\* and with no callback running nothing can reach a replaced instance.  The
\* instances are then renumbered from 1 again, so that the loop can go round
\* more often than there are instance numbers.
renumber(t) ==
    /\ At(t, "run_loop")
    /\ should_run
    /\ created = MaxInstances
    /\ hist.abnormal < MaxRestarts
    /\ created' = 0
    /\ th' = [th EXCEPT ![t].inst = 0]
    /\ is_running' = [i \in Instances |-> FALSE]
    /\ Forget(Instances)
    /\ hotkeys' = {}
    /\ UNCHANGED <<should_run, restart_delay, gh>>

\* the main thread alone: no hotkey event and no signal arrives
NextGuardian ==
    \/ run_loop("main")
    \/ run_after_start("main")
    \/ run_forever_while("main")
    \/ run_forever_check("main")
    \/ run_forever_register_capture("main")
    \/ run_forever_register_stop("main")
    \/ run_forever_except("main")
    \/ run_forever_raise("main")
    \/ run_died("main")
    \/ run_sleep("main")
    \/ run_except("main")
    \/ ServiceStep("main")
    \/ connect_open("main")
    \/ connect_probe("main")
    \/ connect_except("main")
    \/ connect_except_close("main")
    \/ connect_except_none("main")
    \/ reconnect_loop("main")
    \/ reconnect_after_connect("main")
    \/ close_check("main")
    \/ close_close("main")
    \/ close_none("main")
    \/ renumber("main")

SpecGuardian == Init /\ [][NextGuardian]_vars

(* ------------------- the program with fair scheduling ------------------- *)

\* the statements a thread executes by itself; the arrival of a hotkey event
\* (hotkey_event) and of a signal are left to the environment
ThreadStep(t) ==
    \/ ServiceStep(t)
    \/ ConnectorStep(t)
    \/ t = "main" /\ MainStep
    \/ t = "hk" /\ HotkeyStep /\ ~At(t, "idle")

\* Both threads are operating-system threads: a thread that can execute its
\* next statement eventually does.
SpecFair == Spec /\ \A t \in Threads : WF_vars(ThreadStep(t))

(* ------------------------------ properties ---------------------------- *)

hk == th["hk"]
ghk == gh["hk"]
api == th["main"]
gapi == gh["main"]

\* the sequential client's call of `op` has returned
Returned(op) == api.pc = "api" /\ gapi.op = op

\* C1: whenever no capture pipeline is in progress, every service instance has
\* captures = successful_inserts + failed_inserts: each counted capture ended in
\* exactly one of the two result counters.
C1_CapturesAccounted ==
    hk.pc \in {"idle", "callback_return"} =>
        \A i \in Instances :
            stats[i].captures = stats[i].successful_inserts + stats[i].failed_inserts

\* C2: the step of the capture callback that reads a clipboard with no text
\* (unreadable, empty or whitespace only) returns from the callback and leaves
\* the counters and the connector's connection as they were, with no insert and
\* no reconnect attempted.
C2_EmptyReadNoEffect ==
    [][(hk.pc = "on_hotkey_read" /\ ghk'.readBlank) =>
          /\ hk'.pc = "callback_return"
          /\ UNCHANGED <<stats, connection, orphans>>
          /\ ghk'.inserts = 0
          /\ ghk'.reconnects = 0]_vars

C2_Witness ==
    /\ hk.pc = "callback_return"
    /\ ghk.op = "empty"
    /\ ghk.readBlank
    /\ is_running[hk.inst]
    /\ connection[hk.inst] = Open

\* C3: when connect() returns, it has tried the endpoints once each in list
\* order up to the first one whose connect and probe both succeeded; it returns
\* True bound to that endpoint, and returns False exactly when every endpoint
\* failed, then holding no connection and having closed every handle it opened.
C3_ConnectFallback ==
    Returned("connect") =>
        LET tr == gapi.tried
            n == Len(tr)
            Failed(k) == tr[k].outcome \in {"refused", "probe_failed"}
        IN  /\ api.ret \in {0, 1}
            /\ n \in 1..NumEndpoints
            /\ \A k \in 1..n : tr[k].ep = k
            /\ \A k \in 1..(n - 1) : Failed(k)
            /\ api.ret = 1 <=> tr[n].outcome = "ok"
            /\ api.ret = 1 =>
                  connection[1] = Open /\ gapi.bound = n /\ gapi.opened = gapi.closed + 1
            /\ api.ret = 0 <=> (n = NumEndpoints /\ \A k \in 1..n : Failed(k))
            /\ api.ret = 0 => connection[1] = NoConn /\ gapi.opened = gapi.closed

C3_Witness ==
    /\ Returned("connect")
    /\ api.ret = 1
    /\ gapi.tried[1].outcome = "refused"
    /\ connection[1] = Open
    /\ gapi.bound = 2

\* C4: reconnect_with_backoff() makes at most 5 connect() attempts, sleeps
\* min(1 * 2^i, 30) <= 30 before attempt i (from 0), returns True at the first
\* attempt that succeeds and returns False exactly when all 5 attempts failed.
C4_ReconnectBackoff ==
    /\ gapi.attempts <= 5
    /\ Returned("reconnect") =>
        LET n == gapi.attempts
        IN  /\ n \in 1..5
            /\ Len(gapi.slept) = n
            /\ Len(gapi.results) = n
            /\ \A i \in 0..(n - 1) :
                /\ gapi.slept[i + 1] = Min(1 * Pow2(i), 30)
                /\ gapi.slept[i + 1] <= 30
            /\ \A k \in 1..(n - 1) : gapi.results[k] = 0
            /\ api.ret \in {0, 1}
            /\ api.ret = 1 <=> gapi.results[n] = 1
            /\ api.ret = 1 => connection[1] = Open
            /\ api.ret = 0 <=> (n = 5 /\ \A k \in 1..n : gapi.results[k] = 0)
            /\ api.ret = 0 => connection[1] = NoConn

C4_Witness ==
    /\ Returned("reconnect")
    /\ api.ret = 1
    /\ gapi.slept = <<1, 2, 4, 8, 16>>

\* the steps the flow of a callback still takes at most inside the function it
\* is in, and after returning to each label on its stack
PcSteps(pc, idx, retry) ==
    CASE pc = "connect_open" -> (NumEndpoints - idx) * 5 + 5
      [] pc = "connect_probe" -> (NumEndpoints - idx) * 5 + 4
      [] pc = "connect_except" -> (NumEndpoints - idx) * 5 + 3
      [] pc = "connect_except_close" -> (NumEndpoints - idx) * 5 + 2
      [] pc = "connect_except_none" -> (NumEndpoints - idx) * 5 + 1
      [] pc = "reconnect_loop" -> (max_retries - retry) * (5 * NumEndpoints + 2) + 1
      [] pc = "reconnect_after_connect" ->
            (max_retries - retry - 1) * (5 * NumEndpoints + 2) + 2
      [] pc = "insert_check" -> 2
      [] pc = "insert_exec" -> 1
      [] pc = "close_check" -> 3
      [] pc = "close_close" -> 2
      [] pc = "close_none" -> 1
      [] pc = "retry_after_second_insert" -> 1
      [] pc = "retry_after_reconnect" -> 4
      [] pc = "retry_after_insert" -> max_retries * (5 * NumEndpoints + 2) + 6
      [] pc = "on_hotkey_read" -> max_retries * (5 * NumEndpoints + 2) + 9
      [] pc = "on_hotkey_pressed" -> max_retries * (5 * NumEndpoints + 2) + 10
      [] pc = "stop_stats" -> 1
      [] pc = "stop_unhook" -> 5
      [] pc = "stop_restart" -> 6
      [] pc = "stop_flag" -> 7
      [] pc = "on_stop_signal_guardian" -> 1
      [] pc = "on_stop_hotkey_pressed" -> 9
      [] OTHER -> 0

RECURSIVE StackSteps(_, _)
StackSteps(stack, retry) ==
    IF stack = <<>> THEN 0
    ELSE PcSteps(Head(stack), 0, retry) + StackSteps(Tail(stack), retry)

\* a bound on the steps left before the callback the hotkey thread runs is over
Rank ==
    IF hk.pc \in {"idle", "exited"} THEN 0
    ELSE IF hk.pc = "callback_return" THEN 1
    ELSE 1 + PcSteps(hk.pc, hk.idx, hk.retry) + StackSteps(hk.stack, hk.retry)

\* C5: a capture with text makes at most two insert attempts and at most one
\* reconnect_with_backoff() call, and every step of a callback lowers a bound on
\* the steps it has left, so it terminates.  When the pipeline has run to its
\* end: a first insert that succeeded was followed by no reconnect and counted
\* one success; a failed insert and a failed reconnect counted one failure with
\* no second insert; a failed insert and a successful reconnect were followed by
\* exactly one more insert, which counted one success and no failure when it
\* succeeded, and one failure otherwise.
C5_PipelineBounded ==
    /\ [](/\ ghk.inserts <= 2
          /\ ghk.reconnects <= 1
          /\ Rank \in 0..(max_retries * (5 * NumEndpoints + 2) + 11)
          /\ (hk.pc = "callback_return" /\ ghk.op = "handled") =>
                LET st == stats[hk.inst]
                    OneSuccess == /\ st.successful_inserts = ghk.s0 + 1
                                  /\ st.failed_inserts = ghk.f0
                    OneFailure == /\ st.successful_inserts = ghk.s0
                                  /\ st.failed_inserts = ghk.f0 + 1
                IN  /\ st.captures = ghk.c0 + 1
                    /\ ghk.first \in {"ok", "failed"}
                    /\ ghk.first = "ok" =>
                         ghk.inserts = 1 /\ ghk.reconnects = 0 /\ OneSuccess
                    /\ ghk.first = "failed" => ghk.reconnects = 1 /\ ghk.reconn \in {"ok", "failed"}
                    /\ (ghk.first = "failed" /\ ghk.reconn = "failed") =>
                         ghk.inserts = 1 /\ OneFailure
                    /\ (ghk.first = "failed" /\ ghk.reconn = "ok") =>
                         /\ ghk.inserts = 2
                         /\ ghk.second \in {"ok", "failed"}
                         /\ ghk.second = "ok" => OneSuccess
                         /\ ghk.second = "failed" => OneFailure)
    /\ [][(hk.pc \notin {"idle", "exited"} /\ hk' # hk) => Rank' < Rank]_vars

C5_Witness ==
    /\ hk.pc = "callback_return"
    /\ ghk.op = "handled"
    /\ ghk.first = "failed"
    /\ ghk.reconn = "ok"
    /\ ghk.second = "ok"
    /\ ghk.inserts = 2
    /\ stats[hk.inst].successful_inserts = ghk.s0 + 1

\* C6: an insert that got a store error on an established connection returns
\* None, leaves self.connection None and sent one statement only; and from an
\* insert error until a connect succeeds the connector holds no connection, so
\* an insert called in that span returns None and sends nothing.
C6_InsertErrorInvalidates ==
    /\ (api.pc = "api" /\ gapi.errored) => connection[1] = NoConn
    /\ Returned("insert") =>
        /\ gapi.sent <= 1
        /\ (gapi.pre # NoConn /\ api.ret = None) =>
              gapi.sent = 1 /\ gapi.errored /\ connection[1] = NoConn
        /\ (gapi.pre # NoConn /\ api.ret # None) =>
              api.ret \in StoreIds /\ gapi.sent = 1 /\ connection[1] = gapi.pre
        /\ gapi.preErr => api.ret = None /\ gapi.sent = 0

C6_Witness ==
    /\ Returned("insert")
    /\ gapi.preErr
    /\ api.ret = None
    /\ gapi.sent = 0
    /\ gapi.calls = MaxCalls

\* C7: insert_question called while self.connection is None returns None, sends
\* nothing, makes no connect attempt and leaves self.connection None.
C7_InsertWithoutConnection ==
    (Returned("insert") /\ gapi.pre = NoConn) =>
        /\ api.ret = None
        /\ gapi.sent = 0
        /\ gapi.opened = 0
        /\ gapi.attempts = 0
        /\ connection[1] = NoConn

C7_Witness ==
    /\ Returned("insert")
    /\ gapi.pre = NoConn
    /\ ~gapi.preErr
    /\ api.ret = None

\* C8: every connector has at most one handle that it opened and that is not
\* closed.
C8_AtMostOneLive == \A i \in Instances : Live(i) <= 1

\* C9 as stated: inside a failure episode (no successful connect, no successful
\* start since the first failure) each delay slept is at least the one slept
\* before it, also from one reconnect_with_backoff() call to the next.
C9_DelaysMonotoneInEpisode ==
    /\ \A i \in Instances : hist.dbPrev[i] <= hist.dbLast[i]
    /\ hist.rsPrev <= hist.rsLast

\* the sleeps the reconnect_with_backoff() call that flow t is in has made
SleptInCall(t) ==
    IF th[t].pc = "reconnect_loop" THEN th[t].retry
    ELSE IF \/ th[t].pc = "reconnect_after_connect"
            \/ \E k \in 1..Len(th[t].stack) : th[t].stack[k] = "reconnect_after_connect"
         THEN th[t].retry + 1
         ELSE 0

\* C9 as the code has it: the delays of one reconnect_with_backoff() call never
\* decrease and every call starts again at the base delay 1, whether or not a
\* connect has succeeded since the call before; the restart delays slept never
\* decrease between two successful starts, the first one after a successful
\* start (or after the guardian began) is the base delay 5, and the restart
\* delay is at its base whenever no restart has been slept since.
C9_DelaysMonotoneInCall ==
    /\ \A i \in Instances :
        \A t \in Threads :
            th[t].inst = i =>
                /\ SleptInCall(t) >= 2 => hist.dbPrev[i] <= hist.dbLast[i]
                /\ (SleptInCall(t) = 1 /\ ~(th[t].pc = "reconnect_after_connect" /\ th[t].ret = 1)) => hist.dbLast[i] = 1
    /\ hist.rsPrev <= hist.rsLast
    /\ (hist.rsPrev = 0 /\ hist.rsLast # 0) => hist.rsLast = 5 * DelayUnit
    /\ hist.rsLast = 0 => restart_delay = 5 * DelayUnit

C9_Witness ==
    /\ hist.rsPrev # 0
    /\ hist.rsPrev < hist.rsLast
    /\ \E i \in Instances : hist.dbPrev[i] = 8 /\ hist.dbLast[i] = 16

\* C10: after n service exits that the guardian counted as abnormal, the
\* restart_count of the running service instance is n, and so is the
\* restart_count that stop() reports at graceful shutdown.
C10_RestartCountCarried ==
    /\ (created > 0 /\ is_running[created]) =>
          stats[created].restart_count = hist.abnormal
    /\ \A t \in Threads :
          (At(t, "stop_stats") /\ th[t].shutdown /\ stats[Self(t)].start_time) =>
              stats[Self(t)].restart_count = hist.abnormal

\* C11: when the callback of a stop trigger that fired on the running service
\* instance ends, that service is stopped and the guardian has been told to
\* end its loop (should_run is False), so that it creates and starts no
\* further service instance.
C11_StopEndsGuardian ==
    (hk.pc = "callback_return" /\ ghk.op = "stop" /\ ghk.live) =>
        /\ ~is_running[hk.inst]
        /\ ~should_run

\* C12: the guardian loop ends only on request: whenever ServiceGuardian.run
\* has returned the stop trigger had fired before, and whenever the process
\* has ended otherwise an interrupt or termination signal had been delivered;
\* failed connects, failed starts, failed registrations and exceptions of
\* start() or run_forever() never end it.
C12_GuardianExitsOnlyOnRequest ==
    /\ th["main"].pc = "run_done" => hist.stop_pressed
    /\ th["main"].pc = "exited" => hist.signalled

\* the guardian has returned after a stop request that followed a counted fault
C12_Witness ==
    /\ th["main"].pc = "run_done"
    /\ hist.abnormal > 0
    /\ hist.stop_pressed
    /\ ~hist.signalled

\* C13: when the process has ended after an interrupt or termination signal,
\* the service instance that was running has been stopped gracefully: no
\* instance is left marked running (stop() clears is_running before anything
\* else), with its triggers registered and its connection open.
C13_SignalStopsGracefully ==
    th["main"].pc = "exited" => \A i \in Instances : ~is_running[i]

main == th["main"]

\* the statements of run_forever
RunForeverLabels ==
    {"run_forever_while", "run_forever_check", "run_forever_register_capture",
     "run_forever_register_stop", "run_forever_except", "run_forever_raise"}

\* C14: run_forever() runs only on an instance whose start() succeeded; and as
\* long as no stop has been requested, every step the guardian takes after a
\* failed start() or after an exception of the service leads on to the next
\* one: the fault is counted, the restart delay is slept, and the loop creates
\* a fresh service instance and enters its start().  None of these steps waits
\* for anything, so the main thread, when it keeps running, gets there.
C14_RestartAfterFailure ==
    /\ [](main.pc \in RunForeverLabels => stats[created].start_time)
    /\ [][(~hist.stop_pressed /\ main' # main /\ main'.pc # "exited") =>
            /\ (main.pc = "run_after_start" /\ main.ret # 1) => main'.pc = "run_died"
            /\ main.pc = "run_died" =>
                  /\ main'.pc = "run_sleep"
                  /\ stats'[created].restart_count = stats[created].restart_count + 1
            /\ main.pc = "run_sleep" =>
                  /\ main'.pc = "run_loop"
                  /\ hist'.rsLast = restart_delay
            /\ main.pc = "run_except" =>
                  /\ main'.pc = "run_loop"
                  /\ hist'.rsLast = restart_delay
            /\ main.pc = "run_loop" =>
                  /\ created' = created + 1
                  /\ main'.inst = created'
                  /\ main'.pc = "connect_open"
                  /\ main'.stack = <<"start_after_connect", "run_after_start">>
                  /\ stats'[created'] = FreshStats
                  /\ ~is_running'[created']]_vars

\* the guardian has entered start() of a second instance after a counted fault
C14_Witness ==
    /\ created = 2
    /\ main.inst = 2
    /\ main.pc = "connect_open"
    /\ main.stack = <<"start_after_connect", "run_after_start">>
    /\ hist.abnormal = 1
    /\ hist.rsLast = restart_delay_base
    /\ ~hist.stop_pressed

gmain == gh["main"]

\* start() made a connection: connect() returned True, or it returned False and
\* reconnect_with_backoff() returned True
StartConnected ==
    \/ gmain.first = "ok" /\ gmain.reconn = "none"
    \/ gmain.first = "failed" /\ gmain.reconn = "ok"

\* C15: start() returns True exactly when it has made a connection (connect(),
\* or reconnect_with_backoff() after connect() failed) and then registered the
\* capture trigger and the stop trigger, in that order, and it sets is_running
\* as it returns True; the connection is open when start() goes on to register
\* the triggers; when the connection could not be made or a registration
\* raised, start() returns False, has registered nothing after the failure,
\* and the service is not running.
C15_StartContract ==
    /\ [](main.pc = "run_after_start" =>
            /\ main.ret \in {0, 1}
            /\ main.ret = 1 <=>
                  (StartConnected /\ gmain.registered = <<"capture", "stop">>)
            /\ main.ret = 0 =>
                  /\ ~is_running[created]
                  /\ ~stats[created].start_time
                  /\ StartConnected \/ (gmain.first = "failed" /\ gmain.reconn = "failed")
                  /\ ~StartConnected => gmain.registered = <<>>
                  /\ gmain.registered \in {<<>>, <<"capture">>})
    /\ [](main.pc = "start_register_capture" =>
            StartConnected /\ connection[created] = Open)
    /\ [][(main.pc = "start_running" /\ main' # main /\ main'.pc # "exited") =>
            /\ main'.pc = "run_after_start"
            /\ main'.ret = 1
            /\ is_running'[created]]_vars

\* start() has returned True after connect() failed and the reconnect succeeded
C15_Witness ==
    /\ main.pc = "run_after_start"
    /\ main.ret = 1
    /\ gmain.first = "failed"
    /\ gmain.reconn = "ok"
    /\ gmain.registered = <<"capture", "stop">>
    /\ is_running[created]

\* C16: when stop() returns (its close() has returned and only the logging of
\* the statistics is left), the service is not running, no trigger of the
\* service is registered and the connector holds no connection.
C16_StopPostcondition ==
    \A t \in Threads :
        At(t, "stop_stats") =>
            /\ ~is_running[Self(t)]
            /\ \A r \in hotkeys : r.inst # Self(t)
            /\ connection[Self(t)] = NoConn

\* C17: the capture callback entered while its service is not running returns
\* at once: that step reads no clipboard and leaves the counters, the
\* connection and the registrations as they were; the callback makes no insert
\* and no reconnect; and when it has returned the hotkey thread is idle and
\* keeps nothing of the event.
C17_NotRunningDiscarded ==
    /\ [][(hk.pc = "on_hotkey_pressed" /\ ~is_running[hk.inst]
              /\ hk' # hk /\ hk'.pc # "exited") =>
            /\ hk'.pc = "callback_return"
            /\ hk'.stack = <<>>
            /\ ghk'.op = "discarded"
            /\ UNCHANGED <<stats, is_running, connection, orphans, hotkeys>>]_vars
    /\ [](ghk.op = "discarded" =>
            /\ hk.pc = "callback_return"
            /\ ghk.inserts = 0
            /\ ghk.reconnects = 0)
    /\ [][(ghk.op = "discarded" /\ hk' # hk /\ hk'.pc # "exited") =>
            /\ hk' = FreshThread("idle")
            /\ ghk' = FreshGhost]_vars

\* a capture trigger of a service that had run and was stopped has been discarded
C17_Witness ==
    /\ ghk.op = "discarded"
    /\ hk.pc = "callback_return"
    /\ stats[hk.inst].start_time
    /\ ~is_running[hk.inst]

\* C18: when close() returns, the connector holds no connection and close()
\* has released one handle if it found an open one and none otherwise; a
\* close() called right after a close() finds no connection, releases nothing
\* and leaves the connector as it was.
C18_CloseIdempotent ==
    Returned("close") =>
        /\ api.ret = None
        /\ connection[1] = NoConn
        /\ gapi.pre \in {NoConn, Open}
        /\ gapi.released = (IF gapi.pre = Open THEN 1 ELSE 0)
        /\ gapi.prevop = "close" =>
              /\ gapi.pre = NoConn
              /\ gapi.released = 0

\* connect, close, close: the second close() has returned
C18_Witness ==
    /\ Returned("close")
    /\ gapi.prevop = "close"
    /\ gapi.calls = 3
    /\ gapi.bound # 0

\* the close() of a stop() that flow t ran has returned, and t has done nothing
\* but return from stop() since
StopHasClosed(t) ==
    th[t].pc \in {"stop_stats", "run_forever_raise", "on_stop_signal_guardian"}

\* C19: once the close() of a stop() has returned, the connection of the
\* stopped service instance is absent and stays absent, whatever the capture
\* pipeline on the hotkey thread was doing when stop() began.
C19_ClosedStaysAbsent ==
    \A t \in Threads : StopHasClosed(t) => connection[Self(t)] = NoConn

\* the statements of stop(), and of the close() it calls
StopLabels ==
    {"stop_flag", "stop_restart", "stop_unhook", "close_check", "close_close",
     "close_none", "stop_stats"}

\* C20: in run_forever() the health check goes on to re-register exactly when
\* the service is running and no registration is active; each of the two
\* triggers is then registered by one attempt; an attempt that raises leads to
\* stop() without shutdown, which leaves should_restart as it is, and then to
\* the re-raise into the guardian, which (unless it has been told to stop)
\* counts a restart, sleeps the restart delay and creates the next instance.
C20_ReRegistrationFailureEscalates ==
    [][(main' # main /\ main'.pc # "exited") =>
        /\ main.pc = "run_forever_check" =>
              IF is_running[created] /\ hotkeys' = {}
              THEN main'.pc = "run_forever_register_capture"
              ELSE main'.pc = "run_forever_while"
        /\ main.pc = "run_forever_register_capture" =>
              \/ /\ main'.pc = "run_forever_register_stop"
                 /\ hotkeys' = hotkeys \cup {Registration("capture", created)}
              \/ /\ main'.pc = "run_forever_except"
                 /\ hotkeys' = hotkeys
        /\ main.pc = "run_forever_register_stop" =>
              \/ /\ main'.pc = "run_forever_while"
                 /\ hotkeys' = hotkeys \cup {Registration("stop", created)}
              \/ /\ main'.pc = "run_forever_except"
                 /\ hotkeys' = hotkeys
        /\ main.pc = "run_forever_except" =>
              /\ main'.pc = "stop_flag"
              /\ ~main'.shutdown
              /\ main'.inst = created
              /\ main'.stack = <<"run_forever_raise", "run_after_run_forever">>
        /\ (main.pc \in StopLabels /\ ~main.shutdown) => should_restart' = should_restart
        /\ main.pc = "run_forever_raise" => main'.pc = "run_except"
        /\ (main.pc = "run_except" /\ should_run) =>
              /\ main'.pc = "run_loop"
              /\ stats'[created].restart_count = stats[created].restart_count + 1
              /\ hist'.rsLast = restart_delay
        /\ (main.pc = "run_loop" /\ should_run) => created' = created + 1]_vars

\* the re-registration has failed, stop() has run and the error is on its way
\* to the guardian, which has not been told to stop
C20_Witness ==
    /\ main.pc = "run_forever_raise"
    /\ main.inst = created
    /\ stats[created].start_time
    /\ ~is_running[created]
    /\ should_restart[created]
    /\ should_run
    /\ hotkeys = {}
    /\ connection[created] = NoConn

RECURSIVE Pow(_, _)
Pow(b, n) == IF n = 0 THEN 1 ELSE b * Pow(b, n - 1)

\* min(5 * 1.5^k, 60), in 1/DelayUnit s
RestartDelayAt(k) ==
    IF restart_delay_base * Pow(3, k) >= max_restart_delay * Pow(2, k)
    THEN max_restart_delay
    ELSE (restart_delay_base * Pow(3, k)) \div Pow(2, k)

\* C21: with k the number of restarts the guardian has slept for since the last
\* successful start() (or since it began), the restart delay is
\* min(5 * 1.5^k, 60), which is 5 after a successful start(); the delay last
\* slept, before the restart number k - 1, was min(5 * 1.5^(k-1), 60), exactly
\* (no rounding); and the restart delay lies between 5 and 60.
C21_RestartDelaySequence ==
    /\ restart_delay = RestartDelayAt(hist.streak)
    /\ restart_delay >= restart_delay_base
    /\ restart_delay <= max_restart_delay
    /\ hist.streak = 0 => hist.rsLast = 0 /\ restart_delay = 5 * DelayUnit
    /\ hist.streak > 0 =>
          /\ hist.rsLast = RestartDelayAt(hist.streak - 1)
          /\ \/ hist.rsLast = max_restart_delay
             \/ hist.rsLast * Pow(2, hist.streak - 1) = restart_delay_base * Pow(3, hist.streak - 1)

\* the guardian has slept the capped delay of 60 s after one of 56.953125 s
C21_Witness ==
    /\ hist.rsLast = 60 * DelayUnit
    /\ hist.rsPrev = 3645
    /\ hist.streak = 8
    /\ restart_delay = 60 * DelayUnit

\* C22: when start() has returned False, the service instance it was called
\* on holds no open database connection and no hotkey is registered for it,
\* also when the connection had succeeded and a registration failed.
C22_FailedStartLeavesNothing ==
    (main.pc = "run_after_start" /\ main.ret = 0) =>
        /\ connection[created] # Open
        /\ \A r \in hotkeys : r.inst # created

\* the guardian's run() has returned with the service stopped, or the process
\* has ended
GuardianEnded ==
    \/ main.pc = "exited"
    \/ main.pc = "run_done" /\ ~is_running[created]

\* C23: a stop request is not lost.  When the callback of a stop trigger that
\* fired on the guardian's current service instance has ended, having told the
\* guardian to stop, then the service is eventually not running and the
\* guardian's run() eventually returns; this also when the trigger fired
\* between its registration in start() and the statement of start() that
\* marks the service running.
C23_StopNeverLost ==
    (hk.pc = "callback_return" /\ ghk.op = "stop" /\ hk.inst = created /\ ~should_run)
        ~> GuardianEnded

\* C24: at most one service instance is running, and it is the one the
\* guardian created last: the guardian creates a new instance only when the
\* previous one is not running, and no earlier instance becomes running again.
C24_AtMostOneRunning ==
    /\ Cardinality({i \in Instances : is_running[i]}) <= 1
    /\ \A i \in Instances : is_running[i] => i = created

\* the second instance is running while a stop callback still registered for
\* the first one, which had been running, executes stop() on the first
C24_Witness ==
    /\ created = 2
    /\ is_running[2]
    /\ ~is_running[1]
    /\ hk.inst = 1
    /\ ghk.op = "stop"
    /\ hk.pc \in StopLabels

====
